---- MODULE Spec2Model ----
(***************************************************************************)
(* A model of the session-authenticated gateway of src/app.py: the Flask   *)
(* session of every caller, the login_required guard, the credential       *)
(* accessor auth_headers, the four /client/patient API handlers, the login *)
(* and logout handlers and the guarded UI handlers that call the gateway's *)
(* own API over HTTP.  One action handles one inbound request from start   *)
(* to end; what the backend (or the loopback call to the gateway itself)   *)
(* answers is an input of the action.  Spec handles the requests of one    *)
(* caller with every input; SpecSessions receives and answers the requests *)
(* of two callers concurrently.                                            *)
(***************************************************************************)
EXTENDS Integers, Sequences, FiniteSets, TLC

VARIABLES
    session,    \* session[s]: the Flask session mapping of caller s
    issued,     \* issued[s]: the access_token the last login of s stored, Revoked
                \* once s has logged out since (history variable)
    last,       \* the inbound request handled last, with all it did
    pending     \* pending[s]: the request of caller s that the server has
                \* received and not yet answered, with the session it came with

vars == <<session, issued, last, pending>>

(***************************************************************************)
(* Bounds of the model.                                                    *)
(***************************************************************************)
NumTokens == 2

Sessions == {"s1", "s2"}
Tokens == {"tok" \o ToString(i) : i \in 1..NumTokens}

(***************************************************************************)
(* JSON values (the Python objects json.loads yields), tagged by type.     *)
(***************************************************************************)
JNull == [t |-> "null"]
JStr(s) == [t |-> "str", s |-> s]
JNum(n) == [t |-> "num", n |-> n]
JList(q) == [t |-> "list", q |-> q]
JObj(m) == [t |-> "obj", m |-> m]

EmptyDict == [k \in {} |-> JNull]

\* Python truthiness of a JSON value (None, "", 0, [] and {} are falsy).
Truthy(v) ==
    CASE v.t = "null" -> FALSE
      [] v.t = "str" -> v.s # ""
      [] v.t = "num" -> v.n # 0
      [] v.t = "list" -> v.q # <<>>
      [] v.t = "obj" -> DOMAIN v.m # {}

\* str(v) inside an f-string, for the values a token can take.
PyStr(v) ==
    CASE v.t = "str" -> v.s
      [] v.t = "num" -> ToString(v.n)
      [] v.t = "null" -> "None"
      [] OTHER -> "<object>"

\* dict.get(key): the member, or None.
DictGet(m, k) == IF k \in DOMAIN m THEN m[k] ELSE JNull

\* request.form.get(key) and request.args.get(key).
FormGet(form, k) == IF k \in DOMAIN form THEN form[k] ELSE [t |-> "null"]

(***************************************************************************)
(* JSON texts.  Keys are written in sorted order; KeyOrder lists every key *)
(* of the model in that order.  Dumps is Flask's jsonify (compact, sorted  *)
(* keys, a trailing newline is added by Jsonify); SpacedDumps is the text  *)
(* a backend built on json.dumps sends (", " and ": " separators).         *)
(***************************************************************************)
KeyOrder ==
    << "access_token", "detail", "details", "error", "id", "message",
       "missing", "patient", "role", "routes", "service", "status" >>

RECURSIVE Join(_, _)
Join(q, sep) ==
    IF q = <<>> THEN ""
    ELSE IF Len(q) = 1 THEN q[1]
    ELSE q[1] \o sep \o Join(Tail(q), sep)

RECURSIVE DumpsWith(_, _, _), DumpMembers(_, _, _, _), DumpElems(_, _, _)
DumpMembers(m, i, isep, ksep) ==
    IF i > Len(KeyOrder) THEN <<>>
    ELSE (IF KeyOrder[i] \in DOMAIN m
          THEN << "\"" \o KeyOrder[i] \o "\"" \o ksep
                  \o DumpsWith(m[KeyOrder[i]], isep, ksep) >>
          ELSE <<>>)
         \o DumpMembers(m, i + 1, isep, ksep)
DumpElems(q, isep, ksep) ==
    IF q = <<>> THEN <<>>
    ELSE << DumpsWith(Head(q), isep, ksep) >> \o DumpElems(Tail(q), isep, ksep)
DumpsWith(v, isep, ksep) ==
    CASE v.t = "null" -> "null"
      [] v.t = "str" -> "\"" \o v.s \o "\""
      [] v.t = "num" -> ToString(v.n)
      [] v.t = "list" -> "[" \o Join(DumpElems(v.q, isep, ksep), isep) \o "]"
      [] v.t = "obj" ->
            "{" \o Join(DumpMembers(v.m, 1, isep, ksep), isep) \o "}"

Dumps(v) == DumpsWith(v, ",", ":")
SpacedDumps(v) == DumpsWith(v, ", ", ": ")

(***************************************************************************)
(* What the backend sends.  A body is a text; the JSON documents below are *)
(* the ones the model's backend and the gateway itself produce.            *)
(***************************************************************************)
DocPatient == JObj([patient |-> JObj([id |-> JStr("abc")])])
DocUnreachable ==
    JObj([error |-> JStr("Backend not reachable"), details |-> JStr("upstream")])
DocDetail == JObj([detail |-> JStr("Not found")])
DocList == JList(<<>>)
PatientDocs == {DocPatient, DocUnreachable, DocDetail, DocList}

LoginDoc(tok, role) == JObj([access_token |-> tok, role |-> role])
LoginDocs ==
    {LoginDoc(JStr(t), JStr("doctor")) : t \in Tokens}
    \cup {JObj([access_token |-> JStr("tok1")]),
          JObj([access_token |-> JStr("")]),
          JObj([access_token |-> JNull]),
          JObj([role |-> JStr("doctor")]),
          DocList}

NonJsonText == "Internal Server Error"

\* The exceptions of requests that derive from requests.RequestException.
RequestExceptions == {"ConnectionError", "Timeout", "TooManyRedirects"}
\* Those that mean that the peer could not be contacted.
Unreachable == {"ConnectionError", "Timeout"}

\* str(e) of a caught exception.
ExcText(e) == e \o " raised by requests"

\* The documents the gateway builds itself (lines 72, 96, 108, 137, 139).
RequiredFields == <<"patient_id", "name", "birth_date">>
MissingLists ==
    {q \in UNION {[1..n -> {"patient_id", "name", "birth_date"}] : n \in 1..3} :
        \A i, j \in 1..Len(q) : i < j =>
            \E a, b \in 1..3 : a < b /\ RequiredFields[a] = q[i]
                                     /\ RequiredFields[b] = q[j]}
StrList(q) == JList([i \in 1..Len(q) |-> JStr(q[i])])
DocMissing(q) ==
    JObj([message |-> JStr("Missing required data"), missing |-> StrList(q)])
DocNotReachable(e) ==
    JObj([error |-> JStr("Backend not reachable"), details |-> JStr(ExcText(e))])
DocPatientIdRequired == JObj([error |-> JStr("patient_id is required")])
DocReadIdRequired == JObj([message |-> JStr("patient_id is required")])
DocDataRequired == JObj([error |-> JStr("data must be a non-empty JSON object")])
GatewayDocs ==
    {DocMissing(q) : q \in MissingLists}
    \cup {DocNotReachable(e) : e \in RequestExceptions}
    \cup {DocPatientIdRequired, DocReadIdRequired, DocDataRequired}

JsonDocs == PatientDocs \cup LoginDocs \cup GatewayDocs

\* flask.jsonify: the compact text with sorted keys and a newline.
Jsonify(v) == Dumps(v) \o "\n"

\* json.loads on the texts of the model: the document a text is a rendering
\* of, computed once for every rendering of every document.
ParseTable ==
    LET texts == {Jsonify(v) : v \in JsonDocs} \cup {SpacedDumps(v) : v \in JsonDocs}
                 \cup {Dumps(v) : v \in JsonDocs}
    IN  [x \in texts |->
            CHOOSE v \in JsonDocs :
                x \in {Jsonify(v), SpacedDumps(v), Dumps(v)}]

Lookup(table, text) ==
    IF text \in DOMAIN table
    THEN [ok |-> TRUE, v |-> table[text]]
    ELSE [ok |-> FALSE, v |-> [t |-> "null"]]

\* Response.json(): the parsed document, or the ValueError it raises.
ParseJSON(text) == Lookup(ParseTable, text)

(***************************************************************************)
(* Outcomes of one HTTP exchange: the peer's response, or the exception    *)
(* requests raises.                                                        *)
(***************************************************************************)
NoOutcome == [kind |-> "none"]
Raised(e) == [kind |-> "exc", exc |-> e]
Answer(status, text) == [kind |-> "resp", status |-> status, text |-> text]

PatientStatuses == {200, 201, 500, 503}
PatientTexts == {SpacedDumps(v) : v \in PatientDocs} \cup {NonJsonText}
BackendOutcomes ==
    {Raised(e) : e \in RequestExceptions}
    \cup {Answer(st, x) : st \in PatientStatuses, x \in PatientTexts}

LoginStatuses == {200, 401}
LoginTexts == {SpacedDumps(v) : v \in LoginDocs} \cup {NonJsonText}
LoginOutcomes ==
    {Raised(e) : e \in RequestExceptions}
    \cup {Answer(st, x) : st \in LoginStatuses, x \in LoginTexts}

(***************************************************************************)
(* Python values passed as the headers argument of requests.               *)
(***************************************************************************)
PyNone == [py |-> "none"]
PyDict(m) == [py |-> "dict", items |-> m]
PyFunction(name) == [py |-> "function", name |-> name]

NoHeaders == [k \in {} |-> ""]

\* One call of requests.<method>: who made it, where it went, what was passed
\* as headers, whether a request left the process, and what the caller got.
Call(by, to, method, path, headers, got) ==
    [by |-> by, to |-> to, method |-> method, path |-> path,
     headers |-> headers, sent |-> headers.py # "function", got |-> got]

\* requests prepares the headers before it sends: a headers argument that is
\* truthy and has no items() raises AttributeError and nothing is sent.
\* Otherwise the exchange has the outcome `out`.
requests_send(headers, out) ==
    IF headers.py = "function" THEN Raised("AttributeError") ELSE out

(***************************************************************************)
(* Responses of the gateway.                                               *)
(***************************************************************************)
JsonResponse(v, status) == [kind |-> "json", status |-> status, body |-> Jsonify(v)]
TextResponse(text, status) == [kind |-> "text", status |-> status, body |-> text]
Redirect(url, flashes) ==
    [kind |-> "redirect", status |-> 302, location |-> url, flash |-> flashes]
Render(template, ctx) ==
    [kind |-> "render", status |-> 200, template |-> template, ctx |-> ctx]
\* An exception no handler caught: Flask answers 500 with its error page.
Unhandled(e) == [kind |-> "unhandled", status |-> 500, exc |-> e]
InternalErrorPage == "<!doctype html><title>500 Internal Server Error</title>"

\* What a caller over HTTP reads of a response: status code and text.
Wire(resp) ==
    CASE resp.kind \in {"json", "text"} -> Answer(resp.status, resp.body)
      [] resp.kind = "unhandled" -> Answer(500, InternalErrorPage)
      [] OTHER -> Answer(resp.status, "")

\* What a view function yields: the response, the calls it made, the session
\* after.  `invoked` tells that the body of the view function ran.
Result(resp, calls, sess) ==
    [resp |-> resp, calls |-> calls, sess |-> sess, invoked |-> TRUE]

(***************************************************************************)
(* Routing: url_for builds the URL of an endpoint (a view function's name) *)
(* and raises BuildError for a name that is no endpoint.                   *)
(***************************************************************************)
Rule ==
    [list_routes |-> "/routes", home |-> "/", about_page |-> "/about",
     health |-> "/health", create_patient |-> "/client/patient/create",
     read_patient_data |-> "/client/patient/<patient_id>",
     update_patient |-> "/client/patient/update",
     delete_patient |-> "/client/patient/delete/<patient_id>",
     login_page |-> "/login", doctor_page |-> "/doctor",
     doctor_create_patient |-> "/doctor/create-patient",
     doctor_update_patient |-> "/doctor/update-patient",
     patient_page |-> "/patient", patient_access |-> "/patient/access",
     patient_update |-> "/patient/update", patient_logout |-> "/patient/logout",
     logout |-> "/logout"]
Endpoints == DOMAIN Rule

Url(path, args) == [path |-> path, args |-> args]
NoArgs == [k \in {} |-> ""]
\* Arguments that are None are left out of the URL.
url_for(endpoint, args) ==
    IF endpoint \in Endpoints
    THEN [ok |-> TRUE,
          url |-> Url(Rule[endpoint],
                      [k \in {x \in DOMAIN args : args[x] # [t |-> "null"]} |-> args[k]])]
    ELSE [ok |-> FALSE, url |-> Url("", NoArgs)]

(***************************************************************************)
(* The credential store: the Flask session of the caller.                  *)
(***************************************************************************)
EmptySession == [k \in {} |-> JNull]

\* auth_headers without the test of the token.
auth_headers_fabricating(sess) ==
    [Authorization |-> "Bearer " \o PyStr(DictGet(sess, "access_token"))]

\* auth_headers(): the bearer header of the session's token, or no header.
auth_headers(sess) ==
    LET token == DictGet(sess, "access_token")
    IN  IF ~Truthy(token) THEN NoHeaders
        ELSE [Authorization |-> "Bearer " \o PyStr(token)]

\* Admitted with the test of the session left out.
Admitted_everyone(sess) == TRUE

\* The test of login_required: a request is let through to the handler
\* when the session has the key access_token.
Admitted(sess) == "access_token" \in DOMAIN sess

\* login_required(f): the response when the session has no access_token;
\* url_for("login") names no endpoint of the application.
login_required(sess, handled) ==
    IF ~Admitted(sess)
    THEN LET u == url_for("login", NoArgs)
         IN  IF u.ok
             THEN [Result(Redirect(u.url, <<>>), <<>>, sess) EXCEPT !.invoked = FALSE]
             ELSE [Result(Unhandled("BuildError"), <<>>, sess) EXCEPT !.invoked = FALSE]
    ELSE handled

(***************************************************************************)
(* The API handlers.  `body` is what request.get_json(silent=True) yields  *)
(* (None when the body is absent or no JSON), `out` the outcome of the     *)
(* exchange with the backend, read only when the handler makes the call.   *)
(***************************************************************************)
Raise(e, sess) == Result(Unhandled(e), <<>>, sess)

\* `payload = request.get_json(silent=True) or {}`
OrEmptyDict(body) == IF Truthy(body) THEN body ELSE JObj(EmptyDict)

\* `f not in payload`: membership in a dict is by key, in a list by element;
\* a number is not iterable (TypeError).
NotIn(f, payload) ==
    CASE payload.t = "obj" -> [ok |-> TRUE, v |-> f \notin DOMAIN payload.m]
      [] payload.t = "list" ->
            [ok |-> TRUE, v |-> \A i \in 1..Len(payload.q) : payload.q[i] # JStr(f)]
      [] OTHER -> [ok |-> FALSE, v |-> FALSE]

\* The list comprehension of lines 69-70, field by field in order: the
\* fields found missing, or the exception the first failing test raises
\* (payload.get on a list is an AttributeError).
RECURSIVE MissingFrom(_, _)
MissingFrom(payload, i) ==
    IF i > Len(RequiredFields) THEN [exc |-> "", missing |-> <<>>]
    ELSE LET f == RequiredFields[i]
             n == NotIn(f, payload)
         IN  IF ~n.ok THEN [exc |-> "TypeError", missing |-> <<>>]
             ELSE IF ~n.v /\ payload.t # "obj"
                  THEN [exc |-> "AttributeError", missing |-> <<>>]
             ELSE LET rest == MissingFrom(payload, i + 1)
                      isMissing == n.v \/ DictGet(payload.m, f) \in {JNull, JStr("")}
                  IN  IF rest.exc # "" THEN rest
                      ELSE [exc |-> "",
                            missing |-> (IF isMissing THEN <<f>> ELSE <<>>)
                                        \o rest.missing]

\* reply_of with the status of the backend dropped.
reply_of_always_200(parsed, out) ==
    IF parsed.ok THEN JsonResponse(parsed.v, 200)
    ELSE TextResponse(out.text, out.status)

\* reply_of with a body that is no JSON wrapped into a JSON error.
reply_of_wrapping(parsed, out) ==
    IF parsed.ok THEN JsonResponse(parsed.v, out.status)
    ELSE JsonResponse(JObj([error |-> JStr(out.text)]), out.status)

\* jsonify(backend_res.json()), or the text when json() raised ValueError.
reply_of(parsed, out) ==
    IF parsed.ok THEN JsonResponse(parsed.v, out.status)
    ELSE TextResponse(out.text, out.status)

\* The response for a backend answer: its JSON passed through jsonify, or its
\* text when it is no JSON, with its status code (lines 98-102).
backend_reply(out) == reply_of(ParseJSON(out.text), out)

\* forward that catches requests.ConnectionError only.
forward_timeout_uncaught(sess, method, path, out) ==
    LET headers == PyDict(auth_headers(sess))
        got == requests_send(headers, out)
        calls == << Call("api", "backend", method, path, headers, got) >>
    IN  CASE got.kind = "exc" /\ got.exc = "ConnectionError" ->
                Result(JsonResponse(DocNotReachable(got.exc), 503), calls, sess)
          [] got.kind = "exc" -> Result(Unhandled(got.exc), calls, sess)
          [] OTHER -> Result(backend_reply(got), calls, sess)

\* forward that reports every 5xx answer of the backend as unreachable.
forward_conflating(sess, method, path, out) ==
    LET headers == PyDict(auth_headers(sess))
        got == requests_send(headers, out)
        calls == << Call("api", "backend", method, path, headers, got) >>
    IN  CASE got.kind = "exc" /\ got.exc \in RequestExceptions ->
                Result(JsonResponse(DocNotReachable(got.exc), 503), calls, sess)
          [] got.kind = "exc" -> Result(Unhandled(got.exc), calls, sess)
          [] got.status >= 500 ->
                Result(JsonResponse(DocNotReachable("ConnectionError"), 503), calls, sess)
          [] OTHER -> Result(backend_reply(got), calls, sess)

\* forward that tries once more when the backend could not be contacted.
forward_retrying(sess, method, path, out) ==
    LET headers == PyDict(auth_headers(sess))
        got == requests_send(headers, out)
        call == Call("api", "backend", method, path, headers, got)
    IN  CASE got.kind = "exc" /\ got.exc \in Unreachable ->
                Result(JsonResponse(DocNotReachable(got.exc), 503), <<call, call>>, sess)
          [] got.kind = "exc" /\ got.exc \in RequestExceptions ->
                Result(JsonResponse(DocNotReachable(got.exc), 503), <<call>>, sess)
          [] got.kind = "exc" -> Result(Unhandled(got.exc), <<call>>, sess)
          [] OTHER -> Result(backend_reply(got), <<call>>, sess)

\* The forwarding shared by the four handlers (lines 88-102): one call with
\* the headers of auth_headers(); a RequestException becomes the 503.
forward(sess, method, path, out) ==
    LET headers == PyDict(auth_headers(sess))
        got == requests_send(headers, out)
        calls == << Call("api", "backend", method, path, headers, got) >>
    IN  CASE got.kind = "exc" /\ got.exc \in RequestExceptions ->
                Result(JsonResponse(DocNotReachable(got.exc), 503), calls, sess)
          [] got.kind = "exc" -> Result(Unhandled(got.exc), calls, sess)
          [] OTHER -> Result(backend_reply(got), calls, sess)

\* What create_patient decides before it calls the backend (lines 65-72):
\* done with a response, or go on.
create_validate(sess, body) ==
    LET payload == OrEmptyDict(body)
        chk == MissingFrom(payload, 1)
    IN  IF chk.exc # "" THEN [done |-> TRUE, result |-> Raise(chk.exc, sess)]
        ELSE IF chk.missing # <<>>
        THEN [done |-> TRUE,
              result |-> Result(JsonResponse(DocMissing(chk.missing), 400), <<>>, sess)]
        ELSE [done |-> FALSE, result |-> Raise("", sess)]

create_patient(sess, body, out) ==
    LET v == create_validate(sess, body)
    IN  IF v.done THEN v.result ELSE forward(sess, "POST", "/patients", out)

read_patient_data(sess, patient_id, out) ==
    IF patient_id = "" THEN Result(JsonResponse(DocReadIdRequired, 400), <<>>, sess)
    ELSE forward(sess, "GET", "/patients/" \o patient_id, out)

\* What update_patient decides before it calls the backend (lines 130-139).
update_validate(sess, body) ==
    LET payload == OrEmptyDict(body)
    IN  IF payload.t # "obj"
        THEN [done |-> TRUE, result |-> Raise("AttributeError", sess)]
        ELSE LET patient_id == DictGet(payload.m, "patient_id")
                 data == IF "data" \in DOMAIN payload.m THEN payload.m["data"]
                         ELSE JObj(EmptyDict)
             IN  IF ~Truthy(patient_id)
                 THEN [done |-> TRUE,
                       result |-> Result(JsonResponse(DocPatientIdRequired, 400),
                                         <<>>, sess)]
                 ELSE IF data.t # "obj" \/ DOMAIN data.m = {}
                 THEN [done |-> TRUE,
                       result |-> Result(JsonResponse(DocDataRequired, 400),
                                         <<>>, sess)]
                 ELSE [done |-> FALSE, result |-> Raise("", sess)]

update_patient(sess, body, out) ==
    LET v == update_validate(sess, body)
    IN  IF v.done THEN v.result
        ELSE forward(sess, "PUT",
                     "/patients/" \o PyStr(DictGet(OrEmptyDict(body).m, "patient_id")),
                     out)

delete_patient(sess, patient_id, out) ==
    forward(sess, "DELETE", "/patients/" \o patient_id, out)

(***************************************************************************)
(* Login and logout.  A form field is None when the form lacks it.  The    *)
(* messages of flash(), which Flask keeps for the next page to show, are   *)
(* part of the response here; the session holds the credential only.       *)
(***************************************************************************)
FlashRequired == "Username and password required"
FlashUnavailable == "Authentication service unavailable"
FlashInvalid == "Invalid username or password"

\* redirect(url_for(endpoint, **args)) after the flashes given.
redirect_to(endpoint, args, flashes, calls, sess) ==
    LET u == url_for(endpoint, args)
    IN  IF u.ok THEN Result(Redirect(u.url, flashes), calls, sess)
        ELSE Result(Unhandled("BuildError"), calls, sess)

\* store_credential that writes the role only when the answer has one.
store_credential_keeping_role(sess, parsed, calls) ==
    IF ~parsed.ok THEN Result(Unhandled("JSONDecodeError"), calls, sess)
    ELSE IF parsed.v.t # "obj" THEN Result(Unhandled("TypeError"), calls, sess)
    ELSE IF "access_token" \notin DOMAIN parsed.v.m
    THEN Result(Unhandled("KeyError"), calls, sess)
    ELSE redirect_to("home", NoArgs, <<>>, calls,
                     [k \in DOMAIN sess \cup {"access_token"}
                            \cup (DOMAIN parsed.v.m \cap {"role"}) |->
                        CASE k = "access_token" -> parsed.v.m["access_token"]
                          [] k = "role" /\ "role" \in DOMAIN parsed.v.m -> parsed.v.m["role"]
                          [] OTHER -> sess[k]])

\* Lines 213-219: the 200 answer is parsed and the credential stored.
\* data["access_token"] needs a dict that has the key.
store_credential(sess, parsed, calls) ==
    IF ~parsed.ok THEN Result(Unhandled("JSONDecodeError"), calls, sess)
    ELSE IF parsed.v.t # "obj" THEN Result(Unhandled("TypeError"), calls, sess)
    ELSE IF "access_token" \notin DOMAIN parsed.v.m
    THEN Result(Unhandled("KeyError"), calls, sess)
    ELSE redirect_to("home", NoArgs, <<>>, calls,
                     [k \in DOMAIN sess \cup {"access_token", "role"} |->
                        CASE k = "access_token" -> parsed.v.m["access_token"]
                          [] k = "role" -> DictGet(parsed.v.m, "role")
                          [] OTHER -> sess[k]])

login_store(sess, text, calls) == store_credential(sess, ParseJSON(text), calls)

\* login_page with the session dropped when the backend refuses the login.
login_page_dropping(sess, method, form, out) ==
    IF method = "GET" THEN Result(Render("login.html", NoArgs), <<>>, sess)
    ELSE IF ~Truthy(FormGet(form, "username")) \/ ~Truthy(FormGet(form, "password"))
    THEN redirect_to("login_page", NoArgs, <<FlashRequired>>, <<>>, sess)
    ELSE LET got == requests_send(PyNone, out)
             calls == << Call("login", "backend", "POST", "/auth/login", PyNone, got) >>
         IN  CASE got.kind = "exc" /\ got.exc \in RequestExceptions ->
                    redirect_to("login_page", NoArgs, <<FlashUnavailable>>, calls, sess)
               [] got.kind = "exc" -> Result(Unhandled(got.exc), calls, sess)
               [] got.status # 200 ->
                    redirect_to("login_page", NoArgs, <<FlashInvalid>>, calls,
                                EmptySession)
               [] OTHER -> login_store(sess, got.text, calls)

\* login_page that asks the backend before it rejects an incomplete form.
login_page_asking(sess, method, form, out) ==
    IF method = "GET" THEN Result(Render("login.html", NoArgs), <<>>, sess)
    ELSE IF ~Truthy(FormGet(form, "username")) \/ ~Truthy(FormGet(form, "password"))
    THEN redirect_to("login_page", NoArgs, <<FlashRequired>>,
                     << Call("login", "backend", "POST", "/auth/login", PyNone, out) >>,
                     sess)
    ELSE LET got == requests_send(PyNone, out)
             calls == << Call("login", "backend", "POST", "/auth/login", PyNone, got) >>
         IN  CASE got.kind = "exc" /\ got.exc \in RequestExceptions ->
                    redirect_to("login_page", NoArgs, <<FlashUnavailable>>, calls, sess)
               [] got.kind = "exc" -> Result(Unhandled(got.exc), calls, sess)
               [] got.status # 200 ->
                    redirect_to("login_page", NoArgs, <<FlashInvalid>>, calls, sess)
               [] OTHER -> login_store(sess, got.text, calls)

login_page(sess, method, form, out) ==
    IF method = "GET" THEN Result(Render("login.html", NoArgs), <<>>, sess)
    ELSE IF ~Truthy(FormGet(form, "username")) \/ ~Truthy(FormGet(form, "password"))
    THEN redirect_to("login_page", NoArgs, <<FlashRequired>>, <<>>, sess)
    ELSE LET got == requests_send(PyNone, out)
             calls == << Call("login", "backend", "POST", "/auth/login", PyNone, got) >>
         IN  CASE got.kind = "exc" /\ got.exc \in RequestExceptions ->
                    redirect_to("login_page", NoArgs, <<FlashUnavailable>>, calls, sess)
               [] got.kind = "exc" -> Result(Unhandled(got.exc), calls, sess)
               [] got.status # 200 ->
                    redirect_to("login_page", NoArgs, <<FlashInvalid>>, calls, sess)
               [] OTHER -> login_store(sess, got.text, calls)

\* logout that removes the access_token and keeps the rest of the session.
logout_keeping_role(sess) ==
    login_required(sess,
        redirect_to("login_page", NoArgs, <<>>, <<>>,
                    [k \in DOMAIN sess \ {"access_token"} |-> sess[k]]))

\* session.clear() and the redirect to the login page.
logout(sess) ==
    login_required(sess, redirect_to("login_page", NoArgs, <<>>, <<>>, EmptySession))

patient_logout(sess) ==
    login_required(sess, Result(Redirect(Url("/login", NoArgs), <<>>), <<>>, sess))

patient_access(sess, form) ==
    login_required(sess,
        redirect_to("patient_page", [patient_id |-> FormGet(form, "patient_id")],
                    <<>>, <<>>, sess))

(***************************************************************************)
(* The guarded UI handlers.  Each calls the gateway's own API over HTTP    *)
(* (http://127.0.0.1:5002): `lo` is NoOutcome when that request reaches    *)
(* the gateway, or the exception requests raises for it.  The request      *)
(* carries no session cookie, so the API handler runs with a new, empty    *)
(* session; `out` is what the backend answers to that API handler.         *)
(* `caught` tells whether the JSONDecodeError of Response.json() derives   *)
(* from RequestException (requests 2.27 and later) or only from ValueError.*)
(***************************************************************************)
\* The call of a UI handler to the gateway: what it gets and the calls made.
loopback(method, path, headers, lo, api) ==
    LET got == requests_send(headers, IF lo.kind = "exc" THEN lo ELSE Wire(api.resp))
        mine == << Call("ui", "gateway", method, path, headers, got) >>
    IN  [got |-> got,
         calls |-> IF headers.py = "function" \/ lo.kind = "exc" THEN mine
                   ELSE mine \o api.calls]

\* What lines 236-241 (and 335-340) make of the answer `got` of the gateway:
\* the patient, the error to show, or the exception that escapes.
NoPatient == [exc |-> "", patient |-> JNull, error |-> JNull]

patient_of(parsed, caught) ==
    IF ~parsed.ok
    THEN (IF caught
          THEN [NoPatient EXCEPT !.error =
                  JStr("Client API not reachable: " \o ExcText("JSONDecodeError"))]
          ELSE [NoPatient EXCEPT !.exc = "JSONDecodeError"])
    ELSE IF parsed.v.t # "obj" THEN [NoPatient EXCEPT !.exc = "AttributeError"]
    ELSE [NoPatient EXCEPT !.patient = DictGet(parsed.v.m, "patient")]

loaded(got, caught) ==
    CASE got.kind = "exc" /\ got.exc \in RequestExceptions ->
            [NoPatient EXCEPT !.error =
                JStr("Client API not reachable: " \o ExcText(got.exc))]
      [] got.kind = "exc" -> [NoPatient EXCEPT !.exc = got.exc]
      [] got.status # 200 ->
            [NoPatient EXCEPT !.error = JStr("Could not load patient: " \o got.text)]
      [] OTHER -> patient_of(ParseJSON(got.text), caught)

\* Lines 229-241 and 328-340: the call that loads the patient.
load_patient(sess, patient_id, lo, out) ==
    loopback("GET", "/client/patient/" \o PyStr(patient_id),
             PyDict(auth_headers(sess)), lo,
             read_patient_data(EmptySession, PyStr(patient_id), out))

\* Lines 243-248: the page, unless an exception escaped.
doctor_render(sess, view_patient_id, l, calls) ==
    IF l.exc # "" THEN Result(Unhandled(l.exc), calls, sess)
    ELSE Result(Render("doctor.html",
                       [patient |-> l.patient, view_patient_id |-> view_patient_id,
                        error |-> l.error]), calls, sess)

doctor_loaded(sess, view_patient_id, c, caught) ==
    doctor_render(sess, view_patient_id, loaded(c.got, caught), c.calls)

doctor_page(sess, view_patient_id, lo, out, caught) ==
    login_required(sess,
        IF ~Truthy(view_patient_id)
        THEN doctor_render(sess, view_patient_id, NoPatient, <<>>)
        ELSE doctor_loaded(sess, view_patient_id,
                           load_patient(sess, view_patient_id, lo, out), caught))

\* Line 342: the page, unless an exception escaped.
patient_render(sess, patient_id, error, success, l, calls) ==
    IF l.exc # "" THEN Result(Unhandled(l.exc), calls, sess)
    ELSE Result(Render("patient.html",
                       [patient_id |-> patient_id, patient |-> l.patient,
                        error |-> IF l.error # JNull THEN l.error ELSE error,
                        success |-> success]), calls, sess)

patient_loaded(sess, patient_id, error, success, c, caught) ==
    patient_render(sess, patient_id, error, success, loaded(c.got, caught), c.calls)

patient_page(sess, patient_id, error, success, lo, out, caught) ==
    login_required(sess,
        IF ~Truthy(patient_id)
        THEN patient_render(sess, patient_id, error, success, NoPatient, <<>>)
        ELSE patient_loaded(sess, patient_id, error, success,
                            load_patient(sess, patient_id, lo, out), caught))

\* Lines 283-286: the id of the created patient is read from the answer.
created_patient_redirect(sess, created_patient, calls) ==
    IF created_patient.t # "obj" THEN Result(Unhandled("AttributeError"), calls, sess)
    ELSE redirect_to("doctor_page",
                     [view_patient_id |-> DictGet(created_patient.m, "id")],
                     <<>>, calls, sess)

created_data_redirect(sess, parsed, calls) ==
    IF ~parsed.ok THEN Result(Unhandled("JSONDecodeError"), calls, sess)
    ELSE IF parsed.v.t # "obj" THEN Result(Unhandled("AttributeError"), calls, sess)
    ELSE created_patient_redirect(sess, DictGet(parsed.v.m, "patient"), calls)

created_redirect(sess, text, calls) ==
    created_data_redirect(sess, ParseJSON(text), calls)

\* Lines 271-286: what doctor_create_patient makes of the gateway's answer.
create_answered(sess, c) ==
    CASE c.got.kind = "exc" /\ c.got.exc \in RequestExceptions ->
            Result(Render("doctor.html", [error |-> JStr("Client API not reachable")]),
                   c.calls, sess)
      [] c.got.kind = "exc" -> Result(Unhandled(c.got.exc), c.calls, sess)
      [] c.got.status \notin {200, 201} ->
            Result(Render("doctor.html",
                          [error |-> JStr("Failed to create patient: " \o c.got.text)]),
                   c.calls, sess)
      [] OTHER -> created_redirect(sess, c.got.text, c.calls)

\* Lines 255-262: the payload built of the form.
create_payload(form) ==
    JObj([k \in {"patient_id", "name", "birth_date", "height", "weight", "blood_type"}
            |-> FormGet(form, k)])

doctor_create_patient(sess, form, lo, out) ==
    login_required(sess,
        create_answered(sess,
            loopback("POST", "/client/patient/create", PyDict(auth_headers(sess)), lo,
                     create_patient(EmptySession, create_payload(form), out))))

\* `data`: the fields of the form that are neither None nor "" (lines 294-298
\* and 358-362).
FormData(form, fields) ==
    [f \in {x \in fields : x \in DOMAIN form /\ form[x] \notin {JNull, JStr("")}}
        |-> form[f]]

\* redirect(url_for(page, <idArg>=patient_id, <key>=text))
back_to(sess, page, idArg, patient_id, key, text, calls) ==
    redirect_to(page,
                [k \in {idArg, key} |-> IF k = idArg THEN patient_id ELSE JStr(text)],
                <<>>, calls, sess)

\* Lines 309-316 and 372-378: the redirect that tells how the update went.
update_answered(sess, page, idArg, patient_id, okMessage, c) ==
    CASE c.got.kind = "exc" /\ c.got.exc \in RequestExceptions ->
            back_to(sess, page, idArg, patient_id, "error",
                    "Client API not reachable: " \o ExcText(c.got.exc), c.calls)
      [] c.got.kind = "exc" -> Result(Unhandled(c.got.exc), c.calls, sess)
      [] c.got.status \notin {200, 201} ->
            back_to(sess, page, idArg, patient_id, "error",
                    "Update failed: " \o c.got.text, c.calls)
      [] OTHER -> back_to(sess, page, idArg, patient_id, "success", okMessage, c.calls)

\* Lines 300 and 364: the payload built of the form.
update_payload(form, fields) ==
    JObj([patient_id |-> FormGet(form, "patient_id"),
          data |-> JObj(FormData(form, fields))])

\* The update through the API (lines 300-316 and 364-378), for the headers
\* argument the handler passes.
ui_update(sess, headers, form, fields, page, idArg, okMessage, lo, out) ==
    update_answered(sess, page, idArg, FormGet(form, "patient_id"), okMessage,
        loopback("PUT", "/client/patient/update", headers, lo,
                 update_patient(EmptySession, update_payload(form, fields), out)))

\* Line 306 passes the function auth_headers, not what it returns.
doctor_update_patient(sess, form, lo, out) ==
    login_required(sess,
        ui_update(sess, PyFunction("auth_headers"), form,
                  {"height", "weight", "blood_type", "notes"},
                  "doctor_page", "view_patient_id", "Patient updated successfully",
                  lo, out))

patient_update(sess, form, lo, out) ==
    login_required(sess,
        ui_update(sess, PyDict(auth_headers(sess)), form,
                  {"notes", "email", "address"},
                  "patient_page", "patient_id", "Saved successfully", lo, out))

\* sorted(str(r) for r in app.url_map.iter_rules()): the rules of the
\* application and Flask's rule for static files.
SortedRules ==
    << "/", "/about", "/client/patient/<patient_id>", "/client/patient/create",
       "/client/patient/delete/<patient_id>", "/client/patient/update", "/doctor",
       "/doctor/create-patient", "/doctor/update-patient", "/health", "/login",
       "/logout", "/patient", "/patient/access", "/patient/logout",
       "/patient/update", "/routes", "/static/<path:filename>" >>

\* The pages and utilities without a backend call (lines 41-60).
static_page(endpoint) ==
    CASE endpoint = "health" ->
            JsonResponse(JObj([status |-> JStr("ok"), service |-> JStr("ehr-client")]), 200)
      [] endpoint = "list_routes" ->
            JsonResponse(JObj([routes |-> StrList(SortedRules)]), 200)
      [] endpoint = "home" -> Render("home.html", NoArgs)
      [] OTHER -> Render("about.html", NoArgs)

(***************************************************************************)
(* The inbound requests the model sends.                                   *)
(***************************************************************************)
FieldValues == {JNull, JStr(""), JStr("v")}
PartialDicts(keys, values) == UNION {[d -> values] : d \in SUBSET keys}

\* JSON bodies of POST /client/patient/create: none, a number, lists, and
\* every object over the required fields.
CreateBodies ==
    {JNull, JNum(5), JList(<<JStr("x")>>), JList(<<JStr("name")>>)}
    \cup {JObj(m) : m \in PartialDicts({"patient_id", "name", "birth_date"}, FieldValues)}

\* JSON bodies of PUT /client/patient/update.
UpdateData ==
    {JNull, JObj(EmptyDict), JList(<<JStr("x")>>), JStr("notes"),
     JObj([notes |-> JStr("n")])}
UpdateBodies ==
    {JNull, JNum(5), JList(<<JStr("x")>>)}
    \cup {JObj(m) : m \in [{"patient_id", "data"} -> {JNull}] }
    \cup {JObj(m) : m \in UNION {
            [{"patient_id"} -> {JNull, JStr(""), JStr("p1")}],
            [{"data"} -> UpdateData],
            {[patient_id |-> i, data |-> d] :
                i \in {JNull, JStr(""), JStr("p1")}, d \in UpdateData} } }
    \cup {JObj(EmptyDict)}

PatientIds == {"p1"}
PageIds == {JNull, JStr("p1")}

LoginForms ==
    [username : {JNull, JStr(""), JStr("alice")}, password : {JNull, JStr(""), JStr("pw")}]
CreateForms ==
    {EmptyDict} \cup [patient_id : {JStr(""), JStr("v")}, name : {JStr(""), JStr("v")},
                      birth_date : {JStr(""), JStr("v")}]
UpdateForms ==
    [patient_id : {JNull, JStr(""), JStr("p1")}, notes : {JNull, JStr(""), JStr("n")}]

\* The loopback call reaches the gateway, or the gateway cannot be contacted.
LoopOutcomes == {NoOutcome} \cup {Raised(e) : e \in Unreachable}

\* Values of the history variable issued besides a token.
NotIssued == [t |-> "none"]
Revoked == [t |-> "revoked"]

(***************************************************************************)
(* The state machine.                                                      *)
(***************************************************************************)
NoRequest ==
    [sid |-> "", route |-> "", method |-> "", input |-> JNull, lo |-> NoOutcome,
     out |-> NoOutcome, caught |-> TRUE, pre |-> EmptySession, issued |-> NotIssued,
     invoked |-> FALSE, calls |-> <<>>, resp |-> Render("", NoArgs)]

\* No request of the caller is being handled.
NotPending == [open |-> FALSE, loaded |-> EmptySession]

Init ==
    /\ session = [s \in Sessions |-> EmptySession]
    /\ issued = [s \in Sessions |-> NotIssued]
    /\ last = NoRequest
    /\ pending = [s \in Sessions |-> NotPending]

\* Handled with one credential store for the whole process.
Handled_global(s, route, method, input, lo, out, caught, res, nowIssued) ==
    /\ session' = [x \in Sessions |-> res.sess]
    /\ issued' = [issued EXCEPT ![s] = nowIssued]
    /\ last' = [sid |-> s, route |-> route, method |-> method, input |-> input,
                lo |-> lo, out |-> out, caught |-> caught, pre |-> session[s],
                issued |-> issued[s], invoked |-> res.invoked, calls |-> res.calls,
                resp |-> res.resp]
    /\ pending' = [pending EXCEPT ![s] = NotPending]

\* Caller s's request to `route` has been handled with result `res`: only
\* the session of the request (the caller's cookie) is written, and the
\* request is no longer pending.
Handled(s, route, method, input, lo, out, caught, res, nowIssued) ==
    /\ session' = [session EXCEPT ![s] = res.sess]
    /\ issued' = [issued EXCEPT ![s] = nowIssued]
    /\ last' = [sid |-> s, route |-> route, method |-> method, input |-> input,
                lo |-> lo, out |-> out, caught |-> caught, pre |-> session[s],
                issued |-> issued[s], invoked |-> res.invoked, calls |-> res.calls,
                resp |-> res.resp]
    /\ pending' = [pending EXCEPT ![s] = NotPending]

\* The outcomes to choose from: those of `all` when the call is made.
OutcomesIf(made, all) == IF made THEN all ELSE {NoOutcome}
\* Both lines of descent of JSONDecodeError, where it is raised.
CaughtChoices(out) ==
    IF out.kind = "resp" /\ out.status = 200 /\ ~ParseJSON(out.text).ok
    THEN BOOLEAN ELSE {TRUE}

StaticPage(s) ==
    \E e \in {"list_routes", "home", "about_page", "health"} :
        Handled(s, e, "GET", JNull, NoOutcome, NoOutcome, TRUE,
                Result(static_page(e), <<>>, session[s]), issued[s])

ApiCreate(s) ==
    \E body \in CreateBodies :
        \E out \in OutcomesIf(~create_validate(session[s], body).done, BackendOutcomes) :
            Handled(s, "create_patient", "POST", body, NoOutcome, out, TRUE,
                    create_patient(session[s], body, out), issued[s])

ApiRead(s) ==
    \E id \in PatientIds, out \in BackendOutcomes :
        Handled(s, "read_patient_data", "GET", JStr(id), NoOutcome, out, TRUE,
                read_patient_data(session[s], id, out), issued[s])

ApiUpdate(s) ==
    \E body \in UpdateBodies :
        \E out \in OutcomesIf(~update_validate(session[s], body).done, BackendOutcomes) :
            Handled(s, "update_patient", "PUT", body, NoOutcome, out, TRUE,
                    update_patient(session[s], body, out), issued[s])

ApiDelete(s) ==
    \E id \in PatientIds, out \in BackendOutcomes :
        Handled(s, "delete_patient", "DELETE", JStr(id), NoOutcome, out, TRUE,
                delete_patient(session[s], id, out), issued[s])

LoginGet(s) ==
    Handled(s, "login_page", "GET", JNull, NoOutcome, NoOutcome, TRUE,
            login_page(session[s], "GET", EmptyDict, NoOutcome), issued[s])

LoginPost(s) ==
    \E form \in LoginForms :
        \E out \in OutcomesIf(Truthy(form.username) /\ Truthy(form.password),
                              LoginOutcomes) :
            LET res == login_page(session[s], "POST", form, out)
                stored == res.resp.kind = "redirect"
                          /\ res.resp.location.path = Rule["home"]
            IN  Handled(s, "login_page", "POST", JObj(form), NoOutcome, out, TRUE, res,
                        IF stored THEN ParseJSON(out.text).v.m["access_token"]
                        ELSE issued[s])

Logout(s) ==
    LET res == logout(session[s])
    IN  Handled(s, "logout", "GET", JNull, NoOutcome, NoOutcome, TRUE, res,
                IF res.invoked THEN Revoked ELSE issued[s])

PatientLogout(s) ==
    Handled(s, "patient_logout", "GET", JNull, NoOutcome, NoOutcome, TRUE,
            patient_logout(session[s]), issued[s])

PatientAccess(s) ==
    \E id \in PageIds :
        Handled(s, "patient_access", "POST", id, NoOutcome, NoOutcome, TRUE,
                patient_access(session[s], [patient_id |-> id]), issued[s])

DoctorPage(s) ==
    \E id \in PageIds :
        \E lo \in OutcomesIf(Admitted(session[s]) /\ Truthy(id), LoopOutcomes) :
            \E out \in OutcomesIf(Admitted(session[s]) /\ Truthy(id) /\ lo = NoOutcome,
                                  BackendOutcomes) :
                \E caught \in CaughtChoices(out) :
                    Handled(s, "doctor_page", "GET", id, lo, out, caught,
                            doctor_page(session[s], id, lo, out, caught), issued[s])

PatientPage(s) ==
    \E id \in PageIds :
        \E lo \in OutcomesIf(Admitted(session[s]) /\ Truthy(id), LoopOutcomes) :
            \E out \in OutcomesIf(Admitted(session[s]) /\ Truthy(id) /\ lo = NoOutcome,
                                  BackendOutcomes) :
                \E caught \in CaughtChoices(out) :
                    Handled(s, "patient_page", "GET", id, lo, out, caught,
                            patient_page(session[s], id, JNull, JNull, lo, out, caught),
                            issued[s])

DoctorCreatePatient(s) ==
    \E form \in CreateForms :
        \E lo \in OutcomesIf(Admitted(session[s]), LoopOutcomes) :
            \E out \in OutcomesIf(
                        /\ Admitted(session[s]) /\ lo = NoOutcome
                        /\ \A k \in {"patient_id", "name", "birth_date"} :
                                Truthy(FormGet(form, k)),
                        BackendOutcomes) :
                Handled(s, "doctor_create_patient", "POST", JObj(form), lo, out, TRUE,
                        doctor_create_patient(session[s], form, lo, out), issued[s])

DoctorUpdatePatient(s) ==
    \E form \in UpdateForms :
        Handled(s, "doctor_update_patient", "POST", JObj(form), NoOutcome, NoOutcome,
                TRUE, doctor_update_patient(session[s], form, NoOutcome, NoOutcome),
                issued[s])

PatientUpdate(s) ==
    \E form \in UpdateForms :
        \E lo \in OutcomesIf(Admitted(session[s]), LoopOutcomes) :
            \E out \in OutcomesIf(
                        /\ Admitted(session[s]) /\ lo = NoOutcome
                        /\ Truthy(form.patient_id)
                        /\ DOMAIN FormData(form, {"notes", "email", "address"}) # {},
                        BackendOutcomes) :
                Handled(s, "patient_update", "POST", JObj(form), lo, out, TRUE,
                        patient_update(session[s], form, lo, out), issued[s])

\* One request of caller s.
Request(s) ==
        \/ StaticPage(s)
        \/ ApiCreate(s)
        \/ ApiRead(s)
        \/ ApiUpdate(s)
        \/ ApiDelete(s)
        \/ LoginGet(s)
        \/ LoginPost(s)
        \/ Logout(s)
        \/ PatientLogout(s)
        \/ PatientAccess(s)
        \/ DoctorPage(s)
        \/ PatientPage(s)
        \/ DoctorCreatePatient(s)
        \/ DoctorUpdatePatient(s)
        \/ PatientUpdate(s)

\* The requests of one caller, with every input of the model.
Callers == {"s1"}
Next == \E s \in Callers : Request(s)

Spec == Init /\ [][Next]_vars

(***************************************************************************)
(* Concurrent callers.  The server handles the requests of different       *)
(* sessions at the same time: a request is received (Flask opens the       *)
(* session of the cookie it came with) and answered later, and between the *)
(* two the requests of other sessions are received and answered.  The      *)
(* inputs are narrowed to one of each kind.                                *)
(***************************************************************************)
NarrowOutcomes ==
    {NoOutcome, Raised("Timeout"), Answer(401, NonJsonText),
     Answer(200, SpacedDumps(DocPatient))}
    \cup {Answer(200, SpacedDumps(LoginDoc(JStr(t), JStr("doctor")))) : t \in Tokens}
NarrowInputs ==
    {JNull, JStr("p1"),
     JObj([username |-> JStr("alice"), password |-> JStr("pw")]),
     JObj([patient_id |-> JStr("v"), name |-> JStr("v"), birth_date |-> JStr("v")]),
     JObj([patient_id |-> JStr("p1"), data |-> JObj([notes |-> JStr("n")])]),
     JObj([patient_id |-> JStr("p1"), notes |-> JStr("n")])}
Narrow(r) ==
    /\ r.lo = NoOutcome /\ r.caught
    /\ r.out \in NarrowOutcomes
    /\ r.input \in NarrowInputs

\* The request of caller s arrives: its session is opened.
Receive(s) ==
    /\ ~pending[s].open
    /\ pending' = [pending EXCEPT ![s] = [open |-> TRUE, loaded |-> session[s]]]
    /\ UNCHANGED <<session, issued, last>>

\* The request of caller s is answered.
Respond(s) ==
    /\ pending[s].open
    /\ Request(s)
    /\ Narrow(last')

NextSessions == \E s \in Sessions : Receive(s) \/ Respond(s)

SpecSessions == Init /\ [][NextSessions]_vars

(***************************************************************************)
(* The claims.  Each is about the request handled last.                    *)
(***************************************************************************)
\* The view functions behind login_required.
GuardedRoutes ==
    {"doctor_page", "doctor_create_patient", "doctor_update_patient", "patient_page",
     "patient_access", "patient_update", "patient_logout", "logout"}
\* Those of them that call out.
GuardedCallers ==
    {"doctor_page", "doctor_create_patient", "doctor_update_patient", "patient_page",
     "patient_update"}
ApiRoutes == {"create_patient", "read_patient_data", "update_patient", "delete_patient"}

BackendCalls == {i \in DOMAIN last.calls : last.calls[i].to = "backend"}
UiCalls == {i \in DOMAIN last.calls : last.calls[i].by = "ui"}
LoginPagePath == "/login"

\* C1: once a login has stored the non-empty token T, every call that a
\* guarded handler of that session makes, until logout or the next login,
\* is given the headers {Authorization: Bearer T}, the result of auth_headers().
C1_BearerOnEveryGuardedCall ==
    (last.route \in GuardedCallers /\ last.issued.t = "str" /\ last.issued.s # "")
        => \A i \in UiCalls :
              last.calls[i].headers
                  = PyDict([Authorization |-> "Bearer " \o last.issued.s])

\* C2: after logout, a request of the session to a guarded route is answered
\* with a redirect to the login page and the view function is not invoked.
C2_RedirectAfterLogout ==
    (last.route \in GuardedRoutes /\ last.issued = Revoked)
        => /\ ~last.invoked
           /\ last.resp.kind = "redirect"
           /\ last.resp.location.path = LoginPagePath

FailedLogin ==
    /\ last.route = "login_page" /\ last.method = "POST"
    /\ last.out.kind = "resp" /\ last.out.status # 200

GenericRefusal == Redirect(Url(LoginPagePath, NoArgs), <<FlashInvalid>>)

\* C3 as stated: a login the backend answers with a status other than 200
\* leaves the session without credential, whatever it held before, and is
\* answered with the redirect to the login page and the generic message only.
C3_RefusedLoginLeavesNoCredential ==
    FailedLogin => /\ ~Admitted(session[last.sid])
                   /\ last.resp = GenericRefusal

\* C3 as amended: a login the backend answers with a status other than 200
\* leaves the credential of the session (access_token and role) as it was
\* before the request (an anonymous caller stays anonymous, a credential
\* stored earlier stays), and is answered with the redirect to the login
\* page and the generic message only.
C3_RefusedLoginKeepsSession ==
    FailedLogin => /\ session[last.sid] = last.pre
                   /\ (~Admitted(last.pre) => ~Admitted(session[last.sid]))
                   /\ last.resp = GenericRefusal

C3_Witness ==
    /\ FailedLogin /\ Admitted(last.pre)
    /\ last.out.text = SpacedDumps(DocList)
    /\ last.resp = GenericRefusal

\* C4: no request ends in an exception that no handler caught.
C4_NoUnhandledException == last.resp.kind # "unhandled"

\* The bodies the create claim is about: no body, or a body that lacks one
\* of the required fields or has it null or empty.
LacksRequired(body) ==
    \/ body.t # "obj"
    \/ \E f \in {"patient_id", "name", "birth_date"} :
            f \notin DOMAIN body.m \/ body.m[f] \in {JNull, JStr("")}

\* C5: a create request whose body is absent or lacks patient_id, name or
\* birth_date (or has one of them null or empty) is answered 400, and no
\* request is made to the backend.
C5_IncompleteCreateIs400 ==
    (last.route = "create_patient" /\ LacksRequired(last.input))
        => last.resp.status = 400 /\ BackendCalls = {}

\* The bodies the update claim is about: patient_id missing or empty, or
\* data missing, empty or no mapping.
InvalidUpdate(body) ==
    \/ body.t # "obj"
    \/ "patient_id" \notin DOMAIN body.m
    \/ body.m["patient_id"] \in {JNull, JStr("")}
    \/ "data" \notin DOMAIN body.m
    \/ body.m["data"].t # "obj"
    \/ body.m["data"] = JObj(EmptyDict)

\* The editable fields of the two update forms.
EditableFields(route) ==
    IF route = "doctor_update_patient" THEN {"height", "weight", "blood_type", "notes"}
    ELSE {"notes", "email", "address"}

\* C6: an update request with an invalid body is answered 400 and no request
\* is made to the backend; so it is when a form handler sends a form with
\* no non-empty editable field to the API: the API answers it 400 and
\* nothing reaches the backend.
C6_InvalidUpdateIs400 ==
    /\ (last.route = "update_patient" /\ InvalidUpdate(last.input))
            => last.resp.status = 400 /\ BackendCalls = {}
    /\ ( /\ last.route \in {"doctor_update_patient", "patient_update"}
         /\ last.invoked /\ last.lo = NoOutcome
         /\ DOMAIN FormData(last.input.m, EditableFields(last.route)) = {} )
            => /\ BackendCalls = {}
               /\ \E i \in UiCalls : /\ last.calls[i].got.kind = "resp"
                                     /\ last.calls[i].got.status = 400

\* The API handler made its call and the backend answered.
BackendAnswered == last.route \in ApiRoutes /\ last.out.kind = "resp"

\* C7: when the backend answers an API operation with status s and a JSON
\* body b, the response has status s and the JSON body b.
C7_JsonAnswerPassedThrough ==
    (BackendAnswered /\ ParseJSON(last.out.text).ok)
        => /\ last.resp.kind = "json"
           /\ last.resp.status = last.out.status
           /\ ParseJSON(last.resp.body) = ParseJSON(last.out.text)

C7_Witness ==
    /\ last.route = "read_patient_data"
    /\ last.out = Answer(500, SpacedDumps(DocDetail))
    /\ last.resp.status = 500
    /\ last.resp.body # last.out.text
    /\ ParseJSON(last.resp.body).v = DocDetail

\* The 503 of the gateway: a JSON object whose error is "Backend not reachable".
SaysNotReachable(resp) ==
    /\ resp.kind = "json" /\ resp.status = 503
    /\ ParseJSON(resp.body).ok
    /\ ParseJSON(resp.body).v.t = "obj"
    /\ "error" \in DOMAIN ParseJSON(resp.body).v.m
    /\ ParseJSON(resp.body).v.m["error"] = JStr("Backend not reachable")

\* C8: when the call to the backend fails to connect or times out, the
\* response of the API operation is the 503 with error "Backend not
\* reachable" and the cause in details.
C8_UnreachableIs503 ==
    (last.route \in ApiRoutes /\ last.out.kind = "exc" /\ last.out.exc \in Unreachable)
        => /\ SaysNotReachable(last.resp)
           /\ ParseJSON(last.resp.body).v.m["details"] = JStr(ExcText(last.out.exc))

C8_Witness ==
    /\ last.route = "delete_patient"
    /\ last.out = Raised("Timeout")
    /\ last.resp.status = 503
    /\ Cardinality(BackendCalls) = 1

\* C9: when the backend answers with status s and a body t that is no JSON,
\* the response has status s and the text t itself as body.
C9_TextAnswerPassedThrough ==
    (BackendAnswered /\ ~ParseJSON(last.out.text).ok)
        => last.resp = TextResponse(last.out.text, last.out.status)

C9_Witness ==
    /\ last.route = "update_patient"
    /\ last.out = Answer(500, NonJsonText)
    /\ last.resp.kind = "text"
    /\ last.resp.body = NonJsonText

\* C10 as stated: an API response is the 503 "Backend not reachable" if and
\* only if the call to the backend failed to connect or timed out.
C10_NotReachableIffNotReached ==
    last.route \in ApiRoutes
        => (SaysNotReachable(last.resp)
                <=> (last.out.kind = "exc" /\ last.out.exc \in Unreachable))

\* The backend itself answered 503 with the error "Backend not reachable".
BackendSaysNotReachable ==
    /\ last.out.kind = "resp" /\ last.out.status = 503
    /\ ParseJSON(last.out.text).ok
    /\ ParseJSON(last.out.text).v.t = "obj"
    /\ "error" \in DOMAIN ParseJSON(last.out.text).v.m
    /\ ParseJSON(last.out.text).v.m["error"] = JStr("Backend not reachable")

\* C10 as amended: an API response is the 503 "Backend not reachable" if and
\* only if the call to the backend raised a RequestException (no connection,
\* a timeout, or another failure of the exchange) or the backend itself
\* answered 503 with that error, which is passed through.
C10_NotReachableIffRaisedOrPassed ==
    last.route \in ApiRoutes
        => (SaysNotReachable(last.resp)
                <=> \/ (last.out.kind = "exc" /\ last.out.exc \in RequestExceptions)
                    \/ BackendSaysNotReachable)

C10_Witness ==
    /\ last.route = "create_patient"
    /\ last.out = Answer(503, SpacedDumps(DocUnreachable))
    /\ SaysNotReachable(last.resp)
    /\ Cardinality(BackendCalls) = 1

\* The token the session held when the request came in.
HeldToken == DictGet(last.pre, "access_token")
HoldsToken == HeldToken.t = "str" /\ HeldToken.s # ""
BearerOf(token) == PyDict([Authorization |-> "Bearer " \o token.s])

\* C11: whenever a patient operation is performed for a session that holds
\* the token T, through the API or through a guarded UI handler that calls
\* the API, every request that reaches the backend carries
\* Authorization: Bearer T.
C11_BearerReachesBackend ==
    (last.route \in ApiRoutes \cup GuardedCallers /\ HoldsToken)
        => \A i \in BackendCalls :
              last.calls[i].sent => last.calls[i].headers = BearerOf(HeldToken)

\* The session holds a credential: the key access_token is stored in it.
HasCredential(sess) == "access_token" \in DOMAIN sess

\* C12: a handler behind login_required makes an outbound call only when the
\* session of the request holds a credential; a request without credential
\* to a guarded route makes no outbound call.
C12_NoCallWithoutCredential ==
    last.route \in GuardedRoutes
        => /\ (last.calls # <<>> => HasCredential(last.pre))
           /\ (~HasCredential(last.pre) => last.calls = <<>>)

C12_Witness ==
    /\ last.route = "doctor_create_patient"
    /\ ~HasCredential(last.pre)
    /\ last.input.m # EmptyDict
    /\ ~last.invoked
    /\ last.calls = <<>>

\* The credential of a session: what it stores as access_token and role.
CredentialOf(sess) == [k \in DOMAIN sess \cap {"access_token", "role"} |-> sess[k]]

\* A login form was submitted without username or without password.
IncompleteLogin ==
    /\ last.route = "login_page" /\ last.method = "POST"
    /\ \E f \in {"username", "password"} :
            FormGet(last.input.m, f) \in {JNull, JStr("")}

\* C13: a login submission whose username or password is missing or empty is
\* rejected by the gateway itself: no request is made to the backend, the
\* credential of the session is what it was, and the answer is the redirect
\* to the login page with the message that both are required.
C13_IncompleteLoginRejectedLocally ==
    IncompleteLogin
        => /\ last.calls = <<>>
           /\ CredentialOf(session[last.sid]) = CredentialOf(last.pre)
           /\ HasCredential(session[last.sid]) = HasCredential(last.pre)
           /\ last.resp = Redirect(Url(LoginPagePath, NoArgs), <<FlashRequired>>)

C13_Witness ==
    /\ IncompleteLogin
    /\ last.input.m["username"] = JStr("alice")
    /\ last.input.m["password"] = JStr("")
    /\ HasCredential(last.pre)
    /\ last.calls = <<>>
    /\ last.resp.kind = "redirect"

\* The form handlers that forward a patient operation, and the page each
\* goes back to.
FormRoutes == {"doctor_create_patient", "doctor_update_patient", "patient_update"}
PageOf(route) == IF route = "patient_update" THEN "patient_page" ELSE "doctor_page"

\* What the forwarded call of the handler returned: the first call made.
Forwarded == last.calls[1].got
ForwardReturned ==
    /\ last.route \in FormRoutes /\ last.invoked
    /\ last.calls # <<>> /\ Forwarded.kind = "resp"

\* The answer is a redirect to the handler's page that tells success: a
\* success value, or (after a create) the page of the created patient, and
\* no error value.
TellsSuccess ==
    /\ last.resp.kind = "redirect"
    /\ last.resp.location.path = Rule[PageOf(last.route)]
    /\ "error" \notin DOMAIN last.resp.location.args
    /\ \/ "success" \in DOMAIN last.resp.location.args
       \/ last.route = "doctor_create_patient"

\* The error messages of the form handlers end with the text they report.
ErrorPrefixes == {"Update failed: ", "Failed to create patient: "}
ReportsText(message, text) ==
    /\ message.t = "str"
    /\ \E p \in ErrorPrefixes : message.s = p \o text

\* The answer shows an error message that contains the text: in the redirect
\* to the page, or on the page rendered.
TellsError(text) ==
    \/ /\ last.resp.kind = "redirect"
       /\ last.resp.location.path = Rule[PageOf(last.route)]
       /\ "error" \in DOMAIN last.resp.location.args
       /\ ReportsText(last.resp.location.args["error"], text)
    \/ /\ last.resp.kind = "render"
       /\ "error" \in DOMAIN last.resp.ctx
       /\ ReportsText(last.resp.ctx["error"], text)

\* C14: when the forwarded call of a form handler returns status s and text
\* t, the handler answers with a redirect to its page that tells success if
\* and only if s is 200 or 201, and otherwise with an error message that
\* contains t.
C14_SuccessIff2xxElseErrorText ==
    ForwardReturned
        => /\ TellsSuccess <=> Forwarded.status \in {200, 201}
           /\ Forwarded.status \notin {200, 201} => TellsError(Forwarded.text)

\* The step answers the request of caller s.
Answers(s) == pending[s].open /\ ~pending'[s].open

\* C15: however the requests of different sessions interleave, a request
\* reads, sets and clears the credential of its own session only: it is
\* handled with the session it came with, the calls it makes carry no
\* token but that session's, and the credential of a session changes only
\* in a step that answers a login or logout of that session.
C15_SessionsIsolated ==
    [][ \A s \in Sessions :
          /\ Answers(s)
                => /\ last'.sid = s
                   /\ last'.pre = pending[s].loaded
                   /\ \A i \in DOMAIN last'.calls :
                        LET h == last'.calls[i].headers
                        IN  (h.py = "dict" /\ h.items # NoHeaders)
                                => h.items = auth_headers(pending[s].loaded)
          /\ CredentialOf(session'[s]) # CredentialOf(session[s])
                => /\ Answers(s)
                   /\ last'.route \in {"login_page", "logout"} ]_vars

C15_Witness ==
    /\ last.sid = "s2" /\ last.route = "logout" /\ last.invoked
    /\ ~HasCredential(session["s2"])
    /\ pending["s1"].open
    /\ HasCredential(pending["s1"].loaded)
    /\ CredentialOf(session["s1"]) = CredentialOf(pending["s1"].loaded)
    /\ CredentialOf(last.pre) # CredentialOf(session["s1"])

\* The session stores a token that is a non-empty string.
StoresToken(sess) ==
    /\ "access_token" \in DOMAIN sess
    /\ sess["access_token"].t = "str"
    /\ sess["access_token"].s # ""

\* The header set the claim prescribes for a session.
PrescribedHeaders(sess) ==
    IF StoresToken(sess)
    THEN [Authorization |-> "Bearer " \o sess["access_token"].s]
    ELSE NoHeaders

\* C16: auth_headers() returns exactly {Authorization: Bearer T} when the
\* session stores the non-empty token T and no header otherwise, in the
\* session of every caller and in the session every request was handled
\* with; before a login and after a logout it returns no header, and no call
\* of a request carries an Authorization header other than the one of the
\* session the request came with.
C16_HeaderOfStoredTokenOnly ==
    /\ \A s \in Sessions :
          /\ auth_headers(session[s]) = PrescribedHeaders(session[s])
          /\ issued[s] \in {NotIssued, Revoked} => auth_headers(session[s]) = NoHeaders
    /\ auth_headers(last.pre) = PrescribedHeaders(last.pre)
    /\ auth_headers(EmptySession) = NoHeaders
    /\ \A i \in DOMAIN last.calls :
          (last.calls[i].headers.py = "dict" /\ last.calls[i].headers.items # NoHeaders)
              => /\ StoresToken(last.pre)
                 /\ last.issued = last.pre["access_token"]
                 /\ last.calls[i].headers.items = PrescribedHeaders(last.pre)

C16_Witness ==
    /\ last.route = "read_patient_data"
    /\ StoresToken(last.pre)
    /\ last.pre["access_token"] = JStr("tok2")
    /\ \E i \in BackendCalls :
          last.calls[i].headers = PyDict([Authorization |-> "Bearer tok2"])
    /\ auth_headers(session[last.sid]) = [Authorization |-> "Bearer tok2"]

LoginSubmission == last.route = "login_page" /\ last.method = "POST"
CouldNotContact == last.out.kind = "exc" /\ last.out.exc \in Unreachable

\* C17: an API request and a login submission make at most one request to
\* the backend; when that one ends in a connection failure or a timeout, it
\* stays the only one and the answer is the failure response (the 503 of
\* the API, the redirect to the login page with the message that the
\* authentication service is unavailable).
C17_AtMostOneBackendRequest ==
    (last.route \in ApiRoutes \/ LoginSubmission)
        => /\ Len(last.calls) <= 1
           /\ Cardinality(BackendCalls) = Len(last.calls)
           /\ CouldNotContact
                => /\ Len(last.calls) = 1
                   /\ last.calls[1].got = last.out
                   /\ last.route \in ApiRoutes => SaysNotReachable(last.resp)
                   /\ LoginSubmission
                        => last.resp = Redirect(Url(LoginPagePath, NoArgs),
                                                <<FlashUnavailable>>)

C17_Witness ==
    /\ LoginSubmission
    /\ last.out = Raised("ConnectionError")
    /\ Len(last.calls) = 1
    /\ last.calls[1].to = "backend" /\ last.calls[1].path = "/auth/login"
    /\ last.resp.kind = "redirect"
    /\ last.resp.flash = <<FlashUnavailable>>

\* The session stores neither access_token nor role.
Anonymous(sess) == DOMAIN sess \cap {"access_token", "role"} = {}

\* C18: GET /logout on a session that holds a credential removes both
\* access_token and role from it; GET /logout on a session without
\* credential (so a second logout) leaves the session as it is, without
\* access_token and without role; logging out twice leaves what logging out
\* once leaves.
C18_LogoutClearsAndIsIdempotent ==
    /\ last.route = "logout"
          => /\ Anonymous(session[last.sid])
             /\ HasCredential(last.pre) => last.invoked
             /\ ~HasCredential(last.pre) => session[last.sid] = last.pre
             /\ last.issued = Revoked => session[last.sid] = last.pre
    /\ \A s \in Sessions :
          /\ Anonymous(logout(session[s]).sess)
          /\ logout(logout(session[s]).sess).sess = logout(session[s]).sess

C18_Witness ==
    /\ last.route = "logout"
    /\ last.issued = Revoked
    /\ Anonymous(last.pre)
    /\ session[last.sid] = last.pre
    /\ issued[last.sid] = Revoked

\* C19: whenever login_required lets a request through to the view function,
\* auth_headers() for the session of that request returns an Authorization:
\* Bearer header, whatever access_token the 200 answer of the login carried.
C19_GuardAndHeaderAgree ==
    (last.route \in GuardedRoutes /\ last.invoked)
        => /\ DOMAIN auth_headers(last.pre) = {"Authorization"}
           /\ auth_headers(last.pre) # [Authorization |-> "Bearer "]

\* The backend answered the login with 200 and a JSON object that has the
\* member access_token.
AnsweredWithToken ==
    /\ last.out.kind = "resp" /\ last.out.status = 200
    /\ ParseJSON(last.out.text).ok
    /\ ParseJSON(last.out.text).v.t = "obj"
    /\ "access_token" \in DOMAIN ParseJSON(last.out.text).v.m

\* C20: a login submission that does not succeed (a field empty, the backend
\* not reached, a status other than 200, a 200 without token) leaves
\* access_token and role of the session as they were; a 200 answer with a
\* token overwrites both together, the role with the answer's role or with
\* None when it has none.
C20_LoginFrame ==
    LoginSubmission
        => /\ ~AnsweredWithToken
                => /\ CredentialOf(session[last.sid]) = CredentialOf(last.pre)
                   /\ session[last.sid] = last.pre
           /\ AnsweredWithToken
                => /\ {"access_token", "role"} \subseteq DOMAIN session[last.sid]
                   /\ session[last.sid]["access_token"]
                        = ParseJSON(last.out.text).v.m["access_token"]
                   /\ session[last.sid]["role"]
                        = DictGet(ParseJSON(last.out.text).v.m, "role")

C20_Witness ==
    /\ LoginSubmission
    /\ last.out = Answer(200, SpacedDumps(JObj([access_token |-> JStr("tok1")])))
    /\ StoresToken(last.pre)
    /\ last.pre["access_token"] = JStr("tok2")
    /\ last.pre["role"] = JStr("doctor")
    /\ session[last.sid]["access_token"] = JStr("tok1")
    /\ session[last.sid]["role"] = JNull

====
